---- MODULE Spec2Model ----
(***************************************************************************)
(* Model of src/app.py: the Dash callback update_dashboard, its nested     *)
(* balance simulation calculate_balance_with_skip_growth, the bracket      *)
(* search of find_required_assets_with_skip_growth, the year-by-year table *)
(* loop and the totals row.                                                *)
(*                                                                         *)
(* Numbers.  Python numbers are modelled as exact finite decimals          *)
(* (type Dec below): a sign, a magnitude in base-10000 limbs and a count   *)
(* of fractional limbs.  Every operation the program applies (+, -, *,     *)
(* /100, /2, ** with an integer exponent, abs, round) is exact on finite   *)
(* decimals, so the model computes what the program computes over the      *)
(* reals; the rounding error of binary floating point and floating-point   *)
(* overflow are not modelled.                                              *)
(***************************************************************************)
EXTENDS Integers, Sequences, FiniteSets, TLC

\* ------------------------------------------------------------------------
\* Unbounded naturals: little-endian sequences of limbs 0..BASE-1 with no
\* most-significant zero limb; <<>> is 0.
\* ------------------------------------------------------------------------
BASE == 100 * 100

Limb(x, i) == IF i <= Len(x) THEN x[i] ELSE 0

Zeros(n) == [j \in 1..n |-> 0]

RECURSIVE NatTrim(_)
NatTrim(x) ==
    IF x = <<>> THEN x
    ELSE IF x[Len(x)] = 0 THEN NatTrim(SubSeq(x, 1, Len(x) - 1)) ELSE x

RECURSIVE NatAddC(_, _, _, _)
NatAddC(x, y, i, c) ==
    IF i > Len(x) /\ i > Len(y) THEN (IF c = 0 THEN <<>> ELSE <<c>>)
    ELSE LET s == Limb(x, i) + Limb(y, i) + c
         IN  <<s % BASE>> \o NatAddC(x, y, i + 1, s \div BASE)

NatAdd(x, y) == NatAddC(x, y, 1, 0)

RECURSIVE NatSubB(_, _, _, _)
NatSubB(x, y, i, bw) ==
    IF i > Len(x) THEN <<>>
    ELSE LET d == x[i] - Limb(y, i) - bw
         IN  IF d < 0 THEN <<d + BASE>> \o NatSubB(x, y, i + 1, 1)
                      ELSE <<d>> \o NatSubB(x, y, i + 1, 0)

\* x - y for x >= y
NatSub(x, y) == NatTrim(NatSubB(x, y, 1, 0))

RECURSIVE NatCmpAt(_, _, _)
NatCmpAt(x, y, i) ==
    IF i = 0 THEN 0
    ELSE IF x[i] > y[i] THEN 1
    ELSE IF x[i] < y[i] THEN -1
    ELSE NatCmpAt(x, y, i - 1)

\* -1, 0, 1 as x < y, x = y, x > y
NatCmp(x, y) ==
    IF Len(x) > Len(y) THEN 1
    ELSE IF Len(x) < Len(y) THEN -1
    ELSE NatCmpAt(x, y, Len(x))

RECURSIVE NatMulLimbC(_, _, _, _)
NatMulLimbC(x, d, i, c) ==
    IF i > Len(x) THEN (IF c = 0 THEN <<>> ELSE <<c>>)
    ELSE LET p == x[i] * d + c
         IN  <<p % BASE>> \o NatMulLimbC(x, d, i + 1, p \div BASE)

RECURSIVE NatMulFrom(_, _, _)
NatMulFrom(x, y, i) ==
    IF i > Len(y) THEN <<>>
    ELSE NatAdd(IF y[i] = 0 THEN <<>>
                ELSE Zeros(i - 1) \o NatMulLimbC(x, y[i], 1, 0),
                NatMulFrom(x, y, i + 1))

NatMul(x, y) == IF x = <<>> \/ y = <<>> THEN <<>> ELSE NatMulFrom(x, y, 1)

RECURSIVE NatFromInt(_)
NatFromInt(n) == IF n = 0 THEN <<>> ELSE <<n % BASE>> \o NatFromInt(n \div BASE)

\* ------------------------------------------------------------------------
\* Dec: the value (neg ? -1 : 1) * mag / BASE^e, kept canonical (no low zero
\* limb while e > 0; zero is non-negative with e = 0), so that two Decs are
\* equal as numbers exactly when they are equal as records.
\* ------------------------------------------------------------------------
RECURSIVE DecNorm(_, _, _)
DecNorm(neg, mag, e) ==
    IF mag = <<>> THEN [neg |-> FALSE, mag |-> <<>>, e |-> 0]
    ELSE IF e > 0 /\ mag[1] = 0 THEN DecNorm(neg, Tail(mag), e - 1)
    ELSE [neg |-> neg, mag |-> mag, e |-> e]

DecFromInt(n) == IF n < 0 THEN DecNorm(TRUE, NatFromInt(-n), 0)
                          ELSE DecNorm(FALSE, NatFromInt(n), 0)

Zero == DecFromInt(0)
One == DecFromInt(1)

\* the magnitude of x written with e fractional limbs (e >= x.e)
DecAlign(x, e) == IF x.mag = <<>> THEN <<>> ELSE Zeros(e - x.e) \o x.mag

DecNeg(x) == DecNorm(~x.neg, x.mag, x.e)

DecAbs(x) == [x EXCEPT !.neg = FALSE]

DecAdd(x, y) ==
    LET e  == IF x.e > y.e THEN x.e ELSE y.e
        mx == DecAlign(x, e)
        my == DecAlign(y, e)
    IN  IF x.neg = y.neg THEN DecNorm(x.neg, NatAdd(mx, my), e)
        ELSE LET c == NatCmp(mx, my)
             IN  IF c = 0 THEN Zero
                 ELSE IF c > 0 THEN DecNorm(x.neg, NatSub(mx, my), e)
                 ELSE DecNorm(y.neg, NatSub(my, mx), e)

DecSub(x, y) == DecAdd(x, DecNeg(y))

DecMul(x, y) == DecNorm(x.neg # y.neg, NatMul(x.mag, y.mag), x.e + y.e)

\* -1, 0, 1
DecSign(x) == IF x.mag = <<>> THEN 0 ELSE IF x.neg THEN -1 ELSE 1

DecLT(x, y) == DecSign(DecSub(x, y)) < 0

DecLE(x, y) == DecSign(DecSub(x, y)) <= 0

\* x / 100 and x / 2, both exact on finite decimals
DecDiv100(x) == DecNorm(x.neg, NatMulLimbC(x.mag, 100, 1, 0), x.e + 1)

DecHalf(x) == DecNorm(x.neg, NatMulLimbC(x.mag, BASE \div 2, 1, 0), x.e + 1)

\* x ** n for an integer n >= 0
RECURSIVE DecPow(_, _)
DecPow(x, n) == IF n <= 0 THEN One ELSE DecMul(x, DecPow(x, n - 1))

\* Python's round(x, 0): to the nearest integer, ties to the even one.
DecRound(x) ==
    IF x.e = 0 THEN x
    ELSE LET ip   == IF Len(x.mag) > x.e
                     THEN SubSeq(x.mag, x.e + 1, Len(x.mag)) ELSE <<>>
             top  == Limb(x.mag, x.e)
             low  == \E j \in 1..(x.e - 1) : Limb(x.mag, j) # 0
             half == BASE \div 2
             up   == \/ top > half
                     \/ top = half /\ low
                     \/ top = half /\ ~low /\ Limb(ip, 1) % 2 = 1
         IN  DecNorm(x.neg, IF up THEN NatAdd(ip, <<1>>) ELSE ip, 0)

\* Python's round(x, 2)
DecRound2(x) == DecDiv100(DecRound(DecMul(x, DecFromInt(100))))

\* ------------------------------------------------------------------------
\* Bounds of the model and the input values it draws from.
\* ------------------------------------------------------------------------
MaxYears == 3

None == "None"

\* the dropdown's options (layout, input_asset_dropdown), and the ones the
\* model selects
AssetOptions == {"BTC-USD", "SOL-USD", "TSLA", "MSTR", "CUSTOM"}

SelectedAssets == {"BTC-USD", "SOL-USD", "CUSTOM"}

CustomTickers == {None, "ETH-USD"}

\* values a user can type into input_value after the default was set, and a
\* value at the edge of the bracket search's range
EditedAssetValues == {1}

EdgeAssetValues == {1000000000}

InflationInputs == {0, 20, 500}

AppreciationInputs == {-200, -100, 0, 50}

MonthlySpendInputs == {0, 1}

StartYearInputs == {2032}

\* what the price lookup can answer when it does not fail
Quotes == {40000}

\* a local not assigned yet (no number), and a callback that has not returned
Unset == [neg |-> FALSE, mag |-> <<>>, e |-> -1]

NotReturned == <<>>

\* ------------------------------------------------------------------------
\* State
\* ------------------------------------------------------------------------
VARIABLES
    asset, custom_asset, years, inflation, appreciation, asset_value,
    monthly_spend, start_year,      \* the callback's arguments
    pc,                             \* position in update_dashboard
    asset_ticker, quote, current_price,
    a, b, fa, fb,                   \* the bracket and the objective at its ends
    expansions, simCalls,           \* history: loop iterations, objective calls
    A_required, total_cost,
    year, balance, data, total_expenses, total_appreciation,
    recs,                           \* history: each year's unrounded loop locals
    outcome                         \* the callback's return value

inputs == <<asset, custom_asset, years, inflation, appreciation, asset_value,
            monthly_spend, start_year>>

price == <<asset_ticker, quote, current_price>>

bracket == <<a, b, fa, fb, expansions, simCalls>>

table == <<year, balance, data, total_expenses, total_appreciation, recs>>

vars == <<inputs, pc, price, bracket, A_required, total_cost, table, outcome>>

\* ------------------------------------------------------------------------
\* set_default_asset_value: the callback that fills input_value
\* ------------------------------------------------------------------------
set_default_asset_value(asset_) ==
    CASE asset_ = "BTC-USD" -> 623197
      [] asset_ = "SOL-USD" -> 1360
      [] asset_ = "TSLA"    -> 4803
      [] asset_ = "MSTR"    -> 9299
      [] OTHER              -> 0

\* ------------------------------------------------------------------------
\* update_dashboard: locals computed from the arguments
\* ------------------------------------------------------------------------
FallbackPrice == 623197

inflation_rate == DecDiv100(DecFromInt(inflation))

appreciation_rate == DecDiv100(DecFromInt(appreciation))

E0 == DecMul(DecFromInt(monthly_spend), DecFromInt(12))

\* Variants of the loop body with a slip in them, against which the properties
\* below are tried: growth not skipped in year 1, expenses compounded one year
\* too far, growth subtracted.
BalanceStepNoSkip(balance_, year_, E0_, i, r) ==
    LET expenses     == DecMul(E0_, DecPow(DecAdd(One, i), year_ - 1))
        asset_growth == DecMul(balance_, r)
    IN  DecSub(DecAdd(balance_, asset_growth), expenses)

BalanceStepLateExpenses(balance_, year_, E0_, i, r) ==
    LET expenses     == DecMul(E0_, DecPow(DecAdd(One, i), year_))
        asset_growth == IF year_ = 1 THEN Zero ELSE DecMul(balance_, r)
    IN  DecSub(DecAdd(balance_, asset_growth), expenses)

BalanceStepGrowthSubtracted(balance_, year_, E0_, i, r) ==
    LET expenses     == DecMul(E0_, DecPow(DecAdd(One, i), year_ - 1))
        asset_growth == IF year_ = 1 THEN Zero ELSE DecMul(balance_, r)
    IN  DecSub(DecSub(balance_, asset_growth), expenses)

\* one pass of the for loop of calculate_balance_with_skip_growth
BalanceStep(balance_, year_, E0_, i, r) ==
    LET expenses     == DecMul(E0_, DecPow(DecAdd(One, i), year_ - 1))
        asset_growth == IF year_ = 1 THEN Zero ELSE DecMul(balance_, r)
    IN  DecSub(DecAdd(balance_, asset_growth), expenses)

RECURSIVE BalanceLoop(_, _, _, _, _, _)
BalanceLoop(balance_, year_, n_years, E0_, i, r) ==
    IF year_ > n_years THEN balance_
    ELSE BalanceLoop(BalanceStep(balance_, year_, E0_, i, r), year_ + 1, n_years, E0_, i, r)

calculate_balance_with_skip_growth(A, n_years, E0_, i, r, V) ==
    BalanceLoop(DecMul(A, V), 1, n_years, E0_, i, r)

balance_to_zero(A) ==
    calculate_balance_with_skip_growth(A, years, E0, inflation_rate,
                                       appreciation_rate, DecFromInt(asset_value))

\* ------------------------------------------------------------------------
\* find_required_assets_with_skip_growth
\* ------------------------------------------------------------------------
\* a, b = 0.01, 100
InitialLow == DecDiv100(One)

InitialHigh == DecFromInt(100)

\* 1e-8 and 1e8
MinLow == DecNorm(FALSE, <<1>>, 2)

MaxHigh == DecFromInt(100000000)

\* while fa * fb > 0
SameSign(fa_, fb_) == DecSign(DecMul(fa_, fb_)) > 0

\* a variant with the second comparison turned round
OutOfRangeTurned(a_, b_) == DecLT(DecAbs(a_), MinLow) \/ DecLT(DecAbs(b_), MaxHigh)

\* if abs(a) < 1e-8 or abs(b) > 1e8
OutOfRange(a_, b_) == DecLT(DecAbs(a_), MinLow) \/ DecLT(MaxHigh, DecAbs(b_))

\* a /= 2 and b *= 2
ShrinkLow(a_) == DecHalf(a_)

GrowHigh(b_) == DecMul(b_, DecFromInt(2))

\* root_scalar(balance_to_zero, bracket=[a, b], method='brentq') is SciPy's.
\* It refuses a bracket whose ends have the same sign (ValueError), returns
\* an end where the objective is zero, and otherwise narrows the bracket,
\* keeping the sign change inside, until the root is within its absolute
\* tolerance xtol = 2e-12 of the returned point.  The narrowing is modelled
\* by bisection.
XTol == DecNorm(FALSE, <<2>>, 3)

BrentRefuses(flo, fhi) == SameSign(flo, fhi)

RECURSIVE Bisect(_, _, _)
Bisect(lo, hi, flo) ==
    LET m == DecHalf(DecAdd(lo, hi))
    IN  IF DecLE(DecHalf(DecSub(hi, lo)), XTol) THEN m
        ELSE LET fm == balance_to_zero(m)
             IN  IF DecSign(fm) = 0 THEN m
                 ELSE IF DecSign(fm) = DecSign(flo) THEN Bisect(m, hi, flo)
                 ELSE Bisect(lo, m, flo)

brentq(lo, hi, flo, fhi) ==
    IF DecSign(flo) = 0 THEN lo
    ELSE IF DecSign(fhi) = 0 THEN hi
    ELSE Bisect(lo, hi, flo)

\* ------------------------------------------------------------------------
\* The table loop's rows and the callback's return values
\* ------------------------------------------------------------------------
\* a variant that does not skip year 1's growth
YearRecordNoSkip(balance_, year_) ==
    LET expenses     == DecMul(E0, DecPow(DecAdd(One, inflation_rate), year_ - 1))
        asset_growth == DecMul(balance_, appreciation_rate)
        subtotal     == DecAdd(balance_, asset_growth)
    IN  [yearIndex |-> year_, startingBalance |-> balance_,
         appreciationAmount |-> asset_growth, subtotal |-> subtotal,
         livingExpenses |-> expenses,
         endingBalance |-> DecSub(subtotal, expenses)]

\* the loop locals of one year, unrounded
YearRecord(balance_, year_) ==
    LET expenses     == DecMul(E0, DecPow(DecAdd(One, inflation_rate), year_ - 1))
        asset_growth == IF year_ = 1 THEN Zero
                        ELSE DecMul(balance_, appreciation_rate)
        subtotal     == DecAdd(balance_, asset_growth)
    IN  [yearIndex |-> year_, startingBalance |-> balance_,
         appreciationAmount |-> asset_growth, subtotal |-> subtotal,
         livingExpenses |-> expenses,
         endingBalance |-> DecSub(subtotal, expenses)]

\* The "Year" cell holds a number in a year's row and the text "Total" in the
\* totals row.
YearCell(n) == [text |-> "", number |-> n]

TotalCell == [text |-> "Total", number |-> 0]

\* what data.append stores for it
Row(rec) ==
    [Year |-> YearCell(start_year + rec.yearIndex - 1),
     StartingBalance |-> DecRound(rec.startingBalance),
     AppreciationRate |-> <<appreciation, "%%">>,
     AppreciationValue |-> DecRound(rec.appreciationAmount),
     Subtotal |-> DecRound(rec.subtotal),
     LivingExpenses |-> DecRound(rec.livingExpenses),
     EndingBalance |-> DecRound(rec.endingBalance)]

\* a variant with the two totals in each other's column
TotalRowSwapped(total_appreciation_, total_expenses_) ==
    [Year |-> TotalCell, StartingBalance |-> "-", AppreciationRate |-> "-",
     AppreciationValue |-> DecRound(total_expenses_), Subtotal |-> "-",
     LivingExpenses |-> DecRound(total_appreciation_), EndingBalance |-> "-"]

TotalRow(total_appreciation_, total_expenses_) ==
    [Year |-> TotalCell, StartingBalance |-> "-", AppreciationRate |-> "-",
     AppreciationValue |-> DecRound(total_appreciation_), Subtotal |-> "-",
     LivingExpenses |-> DecRound(total_expenses_), EndingBalance |-> "-"]

YearRows(data_) == SelectSeq(data_, LAMBDA row : row.Year # TotalCell)

EmptyDiv == [kind |-> "Div", children |-> <<>>]

EmptyFigure == [kind |-> "Figure", traces |-> <<>>]

Figure(data_) ==
    LET rows == YearRows(data_)
    IN  [kind |-> "Figure",
         traces |-> << [name |-> "Starting Balance",
                        x |-> [j \in 1..Len(rows) |-> rows[j].Year],
                        y |-> [j \in 1..Len(rows) |-> rows[j].StartingBalance]],
                       [name |-> "Ending Balance",
                        x |-> [j \in 1..Len(rows) |-> rows[j].Year],
                        y |-> [j \in 1..Len(rows) |-> rows[j].EndingBalance]] >>]

NotFoundSummary ==
    [kind |-> "not_found", asset_type |-> asset_ticker,
     message |-> "Could not find the required balance within the specified range."]

Summary ==
    [kind |-> "summary", asset_type |-> asset_ticker,
     total_assets_required |-> DecRound2(A_required),
     current_asset_price |-> DecRound2(current_price),
     total_cost_to_purchase |-> DecRound2(total_cost)]

\* ------------------------------------------------------------------------
\* One run of the callback update_dashboard
\* ------------------------------------------------------------------------
\* The callback is entered with the values of the input widgets: input_value
\* holds what set_default_asset_value put there for the selected asset, or
\* what the user typed over it (typed[asset]).
Arguments(typed) ==
    /\ asset \in SelectedAssets
    /\ custom_asset \in (IF asset = "CUSTOM" THEN CustomTickers ELSE {None})
    /\ years \in 0..MaxYears
    /\ inflation \in InflationInputs
    /\ appreciation \in AppreciationInputs
    /\ asset_value \in typed[asset]
    /\ monthly_spend \in MonthlySpendInputs
    /\ start_year \in StartYearInputs

NothingComputed ==
    /\ asset_ticker = None /\ quote = <<>> /\ current_price = Unset
    /\ fa = Unset /\ fb = Unset
    /\ expansions = 0 /\ simCalls = 0
    /\ A_required = Unset /\ total_cost = Unset
    /\ year = 0 /\ balance = Unset /\ data = <<>>
    /\ total_expenses = Unset /\ total_appreciation = Unset
    /\ recs = <<>>
    /\ outcome = NotReturned

Entry(typed) ==
    /\ Arguments(typed)
    /\ pc = "fetch"
    /\ a = Unset /\ b = Unset
    /\ NothingComputed

Init ==
    Entry([s \in SelectedAssets |->
              {set_default_asset_value(s)} \cup EditedAssetValues])

\* lines 103-108: the ticker, and fetch_asset_price with its fallback; quote is
\* <<>> when the lookup answered None and <<p>> when it answered the price p
\* (with no ticker typed in, the lookup fails)
FetchPrice ==
    /\ pc = "fetch"
    /\ asset_ticker' = (IF asset = "CUSTOM" THEN custom_asset ELSE asset)
    /\ \E q \in {<<>>} \cup (IF asset_ticker' = None THEN {}
                            ELSE {<<p>> : p \in Quotes}) :
          /\ quote' = q
          /\ current_price' = (IF q = <<>> THEN DecFromInt(FallbackPrice)
                                           ELSE DecFromInt(q[1]))
    /\ pc' = "bracket_init"
    /\ UNCHANGED <<inputs, bracket, A_required, total_cost, table, outcome>>

\* lines 135-136
BracketInit ==
    /\ pc = "bracket_init"
    /\ a' = InitialLow
    /\ b' = InitialHigh
    /\ fa' = balance_to_zero(InitialLow)
    /\ fb' = balance_to_zero(InitialHigh)
    /\ expansions' = 0
    /\ simCalls' = 2
    /\ pc' = "bracket_test"
    /\ UNCHANGED <<inputs, price, A_required, total_cost, table, outcome>>

\* a variant that recomputes the objective before moving the ends
BracketExpandStale ==
    /\ pc = "bracket_test"
    /\ SameSign(fa, fb)
    /\ fa' = balance_to_zero(a)
    /\ fb' = balance_to_zero(b)
    /\ a' = ShrinkLow(a)
    /\ b' = GrowHigh(b)
    /\ expansions' = expansions + 1
    /\ simCalls' = simCalls + 2
    /\ pc' = (IF OutOfRange(a', b') THEN "raised" ELSE "bracket_test")
    /\ UNCHANGED <<inputs, price, A_required, total_cost, table, outcome>>

\* lines 137-142: one pass of the while loop, with the raise that ends it
BracketExpand ==
    /\ pc = "bracket_test"
    /\ SameSign(fa, fb)
    /\ a' = ShrinkLow(a)
    /\ b' = GrowHigh(b)
    /\ fa' = balance_to_zero(a')
    /\ fb' = balance_to_zero(b')
    /\ expansions' = expansions + 1
    /\ simCalls' = simCalls + 2
    /\ pc' = (IF OutOfRange(a', b') THEN "raised" ELSE "bracket_test")
    /\ UNCHANGED <<inputs, price, A_required, total_cost, table, outcome>>

\* lines 144-145 and 155-161: the loop is left, the root is refined, and the
\* table loop is set up; a ValueError of root_scalar goes where the loop's goes
Refine ==
    /\ pc = "bracket_test"
    /\ ~SameSign(fa, fb)
    /\ IF BrentRefuses(fa, fb)
       THEN /\ pc' = "raised"
            /\ UNCHANGED <<A_required, total_cost, table>>
       ELSE /\ A_required' = brentq(a, b, fa, fb)
            /\ total_cost' = DecMul(A_required', current_price)
            /\ balance' = DecMul(A_required', DecFromInt(asset_value))
            /\ data' = <<>>
            /\ total_expenses' = Zero
            /\ total_appreciation' = Zero
            /\ year' = 1
            /\ recs' = <<>>
            /\ pc' = "table_loop"
    /\ UNCHANGED <<inputs, price, bracket, outcome>>

\* a variant that answers the failure with the bracket's upper end
CatchValueErrorFallback ==
    /\ pc = "raised"
    /\ A_required' = b
    /\ total_cost' = DecMul(b, current_price)
    /\ balance' = DecMul(b, DecFromInt(asset_value))
    /\ data' = <<>>
    /\ total_expenses' = Zero
    /\ total_appreciation' = Zero
    /\ year' = 1
    /\ recs' = <<>>
    /\ pc' = "table_loop"
    /\ UNCHANGED <<inputs, price, bracket, outcome>>

\* lines 149-153: except ValueError
CatchValueError ==
    /\ pc = "raised"
    /\ outcome' = <<NotFoundSummary, EmptyDiv, EmptyFigure>>
    /\ pc' = "done"
    /\ UNCHANGED <<inputs, price, bracket, A_required, total_cost, table>>

\* lines 163-182: one pass of the table loop
TableYear ==
    /\ pc = "table_loop"
    /\ year <= years
    /\ LET rec == YearRecord(balance, year)
       IN  /\ data' = Append(data, Row(rec))
           /\ recs' = Append(recs, rec)
           /\ balance' = rec.endingBalance
           /\ total_expenses' = DecAdd(total_expenses, rec.livingExpenses)
           /\ total_appreciation' = DecAdd(total_appreciation, rec.appreciationAmount)
    /\ year' = year + 1
    /\ UNCHANGED <<inputs, pc, price, bracket, A_required, total_cost, outcome>>

\* lines 184-221: the totals row, the table, the figure and the summary
Finish ==
    /\ pc = "table_loop"
    /\ year > years
    /\ data' = Append(data, TotalRow(total_appreciation, total_expenses))
    /\ outcome' = <<Summary, [kind |-> "DataTable", data |-> data'], Figure(data')>>
    /\ pc' = "done"
    /\ UNCHANGED <<inputs, price, bracket, A_required, total_cost,
                   year, balance, total_expenses, total_appreciation, recs>>

Next ==
    \/ FetchPrice
    \/ BracketInit
    \/ BracketExpand
    \/ Refine
    \/ CatchValueError
    \/ TableYear
    \/ Finish

Spec == Init /\ [][Next]_vars

\* the same callback entered with an asset value at the edge of the range
EdgeInit == Entry([s \in SelectedAssets |-> EdgeAssetValues])

EdgeSpec == EdgeInit /\ [][Next]_vars

\* ------------------------------------------------------------------------
\* The objective on its own: calculate_balance_with_skip_growth is computed
\* at two quantities a <= b for the same parameters.
\* ------------------------------------------------------------------------
ProbeQuantities == {Zero, InitialLow, One, InitialHigh, GrowHigh(InitialHigh)}

ProbeAssetValues == {-1, 0, 1, 1360}

ProbeAppreciationInputs == AppreciationInputs \cup {200}

ProbeInit ==
    /\ asset = "CUSTOM"
    /\ custom_asset = None
    /\ years \in 0..MaxYears
    /\ inflation \in InflationInputs
    /\ appreciation \in ProbeAppreciationInputs
    /\ asset_value \in ProbeAssetValues
    /\ monthly_spend \in MonthlySpendInputs
    /\ start_year \in StartYearInputs
    /\ pc = "probe"
    /\ a \in ProbeQuantities
    /\ b \in ProbeQuantities
    /\ DecLE(a, b)
    /\ NothingComputed

Probe ==
    /\ pc = "probe"
    /\ fa' = balance_to_zero(a)
    /\ fb' = balance_to_zero(b)
    /\ simCalls' = 2
    /\ pc' = "probed"
    /\ UNCHANGED <<inputs, price, a, b, expansions, A_required, total_cost,
                   table, outcome>>

ProbeSpec == ProbeInit /\ [][Probe]_vars

\* ------------------------------------------------------------------------
\* Properties
\* ------------------------------------------------------------------------
\* horizonYears >= 1, annualExpenseBase > 0, assetUnitValue > 0
ValidParameters == years >= 1 /\ DecSign(E0) > 0 /\ asset_value > 0

Returned == pc = "done"

ReportsQuantity == Returned /\ outcome[1].kind = "summary"

ReportsNotFound == Returned /\ outcome[1].kind = "not_found"

DecMin(x, y) == IF DecLE(x, y) THEN x ELSE y

DecMax(x, y) == IF DecLE(x, y) THEN y ELSE x

\* the objective changes sign (or is zero) within XTol of A, and v lies
\* between its values at the two ends of that interval
NearZeroAt(A, v) ==
    LET below == balance_to_zero(DecSub(A, XTol))
        above == balance_to_zero(DecAdd(A, XTol))
    IN  /\ DecSign(below) * DecSign(above) <= 0
        /\ DecLE(DecMin(below, above), v)
        /\ DecLE(v, DecMax(below, above))

\* C1 as claimed: for valid parameters the solver does not fail, and the final
\* balance re-simulated at the returned quantity is within tolerance of zero.
C1_SolverNeverFails ==
    (ValidParameters /\ Returned) =>
        /\ outcome[1].kind = "summary"
        /\ NearZeroAt(A_required, balance)

\* C1 as amended: for valid parameters the callback ends either with the
\* bracket-not-found outcome or with a quantity at which the re-simulated final
\* balance is within tolerance of zero.
C1_ZeroCrossingOrNotFound ==
    (ValidParameters /\ Returned) =>
        \/ ReportsNotFound
        \/ ReportsQuantity /\ NearZeroAt(A_required, balance)

C1_Witness ==
    /\ ValidParameters /\ ReportsQuantity /\ expansions > 0
    /\ years = MaxYears /\ appreciation = 50
    /\ NearZeroAt(A_required, balance)

\* C2 as claimed (checked under EdgeSpec): whenever the bracket-not-found failure is raised, the
\* objective has the same sign at both ends of the current bracket.
C2_RaisedOnlyWithoutSignChange ==
    pc = "raised" => SameSign(balance_to_zero(a), balance_to_zero(b))

\* C3: the root finder is entered only with a bracket whose stored objective
\* values were computed at its current ends and do not have the same sign, never
\* after the failure was raised, and the quantity it returns lies in the bracket.
C3_RefinesVerifiedBracket ==
    /\ (A_required # Unset) =>
          /\ fa = balance_to_zero(a)
          /\ fb = balance_to_zero(b)
          /\ DecSign(balance_to_zero(a)) * DecSign(balance_to_zero(b)) <= 0
          /\ ~(expansions > 0 /\ OutOfRange(a, b))
          /\ DecLE(a, A_required)
          /\ DecLE(A_required, b)
    /\ (pc = "raised" \/ ReportsNotFound) => A_required = Unset

C3_Witness ==
    /\ A_required # Unset /\ expansions > 0
    /\ DecLT(a, A_required) /\ DecLT(A_required, b)

\* C4 as claimed: invalid parameters are rejected before any simulation, with
\* an invalid-parameters outcome and neither a quantity nor a table.
C4_InvalidRejectedBeforeSimulating ==
    (~ValidParameters) =>
        /\ simCalls = 0
        /\ A_required = Unset
        /\ data = <<>>
        /\ Returned => outcome[1].kind = "invalid_parameters"

\* C5: an aborted bracket search ends in the not-found outcome with an empty
\* table and an empty figure and no quantity, cost or rows; an outcome that
\* reports a quantity comes from a completed refinement; and the looked-up
\* price (or its fallback when the lookup fails) enters only the displayed
\* price and the total cost, while the rows start from quantity * asset value.
C5_FailureIsExplicit ==
    /\ (Returned /\ expansions > 0 /\ OutOfRange(a, b)) =>
          /\ outcome = <<NotFoundSummary, EmptyDiv, EmptyFigure>>
          /\ A_required = Unset /\ total_cost = Unset
          /\ data = <<>> /\ recs = <<>>
    /\ ReportsQuantity =>
          /\ A_required # Unset
          /\ ~(expansions > 0 /\ OutOfRange(a, b))
          /\ outcome[1].total_assets_required = DecRound2(A_required)
          /\ current_price = (IF quote = <<>> THEN DecFromInt(FallbackPrice)
                                              ELSE DecFromInt(quote[1]))
          /\ outcome[1].current_asset_price = DecRound2(current_price)
          /\ outcome[1].total_cost_to_purchase =
                DecRound2(DecMul(A_required, current_price))
          /\ (years >= 1) =>
                recs[1].startingBalance = DecMul(A_required, DecFromInt(asset_value))
          /\ outcome[2].data = data

C5_Witness ==
    /\ ReportsQuantity /\ quote = <<>> /\ years >= 1
    /\ asset_value # FallbackPrice
    /\ recs[1].startingBalance = DecMul(A_required, DecFromInt(asset_value))

\* C6: after every year the table loop holds the balance that the scalar loop
\* holds after the same number of years, and the last year's unrounded ending
\* balance is the scalar result.
C6_LoopsAgree ==
    (pc \in {"table_loop", "done"} /\ A_required # Unset) =>
        /\ balance = calculate_balance_with_skip_growth(A_required, year - 1, E0,
                        inflation_rate, appreciation_rate, DecFromInt(asset_value))
        /\ (year > 1) => recs[year - 1].endingBalance = balance
        /\ (year > years) => balance = balance_to_zero(A_required)

C6_Witness ==
    /\ ReportsQuantity /\ years = MaxYears /\ appreciation = 50 /\ inflation = 20
    /\ DecSign(E0) > 0
    /\ recs[years].endingBalance = balance_to_zero(A_required)

\* the sum of a sequence of numbers, and the columns summed below
RECURSIVE SumTo(_, _)
SumTo(seq, n) == IF n = 0 THEN Zero ELSE DecAdd(SumTo(seq, n - 1), seq[n])

Sum(seq) == SumTo(seq, Len(seq))

AppreciationCells(rows) == [j \in 1..Len(rows) |-> rows[j].AppreciationValue]

ExpensesCells(rows) == [j \in 1..Len(rows) |-> rows[j].LivingExpenses]

AppreciationAmounts(rs) == [j \in 1..Len(rs) |-> rs[j].appreciationAmount]

LivingExpenses(rs) == [j \in 1..Len(rs) |-> rs[j].livingExpenses]

\* C7 as claimed, read on the rows of the returned table: with a positive
\* appreciation rate, year 1 shows appreciation 0, every later year shows the
\* previous row's ending balance times the rate, and each starting balance is
\* the previous ending one.
C7_RowsSkipYearOneGrowth ==
    (ReportsQuantity /\ appreciation > 0) =>
        LET rows == YearRows(data)
        IN  \A j \in 1..Len(rows) :
               IF j = 1
               THEN rows[1].AppreciationValue = Zero
               ELSE /\ rows[j].AppreciationValue =
                          DecMul(rows[j - 1].EndingBalance, appreciation_rate)
                    /\ rows[j].StartingBalance = rows[j - 1].EndingBalance

\* C7 as amended: the relations hold of the loop's unrounded values, and each
\* row shows those values rounded to a whole number (so the rows keep year 1's
\* appreciation of 0 and the chaining of starting to ending balances).
C7_YearOneGrowthSkipped ==
    (pc \in {"table_loop", "done"} /\ A_required # Unset /\ appreciation > 0) =>
        /\ Len(recs) = year - 1
        /\ \A j \in 1..Len(recs) :
              /\ data[j] = Row(recs[j])
              /\ IF j = 1
                 THEN /\ recs[1].startingBalance =
                            DecMul(A_required, DecFromInt(asset_value))
                      /\ recs[1].appreciationAmount = Zero
                      /\ recs[1].endingBalance =
                            DecSub(recs[1].startingBalance, E0)
                      /\ data[1].AppreciationValue = Zero
                 ELSE /\ recs[j].appreciationAmount =
                            DecMul(recs[j - 1].endingBalance, appreciation_rate)
                      /\ recs[j].startingBalance = recs[j - 1].endingBalance
                      /\ data[j].StartingBalance = data[j - 1].EndingBalance

C7_Witness ==
    /\ ReportsQuantity /\ appreciation > 0 /\ years = MaxYears
    /\ DecSign(recs[1].startingBalance) > 0
    /\ DecSign(recs[2].appreciationAmount) # 0
    /\ recs[2].appreciationAmount # data[2].AppreciationValue

\* C8 as claimed, read on the rows of the returned table: the Total row's
\* appreciation cell is the sum of the years' appreciation cells, and its
\* living-expenses cell the sum of the years' living-expenses cells.
C8_TotalRowSumsRows ==
    ReportsQuantity =>
        LET rows  == YearRows(data)
            total == data[Len(data)]
        IN  /\ total.AppreciationValue = Sum(AppreciationCells(rows))
            /\ total.LivingExpenses = Sum(ExpensesCells(rows))

\* C8 as amended: the Total row's cells are the sums of the years' unrounded
\* appreciation amounts and living expenses, each sum rounded to a whole number.
C8_TotalRowRoundsSums ==
    ReportsQuantity =>
        LET total == data[Len(data)]
        IN  /\ Len(data) = years + 1 /\ Len(recs) = years
            /\ total.Year = TotalCell
            /\ total.AppreciationValue =
                  DecRound(Sum(AppreciationAmounts(recs)))
            /\ total.LivingExpenses =
                  DecRound(Sum(LivingExpenses(recs)))

C8_Witness ==
    /\ ReportsQuantity /\ years = MaxYears
    /\ DecSign(Sum(AppreciationAmounts(recs))) # 0
    /\ data[Len(data)].LivingExpenses #
          Sum(ExpensesCells(YearRows(data)))

Pow2(n) == DecPow(DecFromInt(2), n)

\* C10: the bracket search makes at most 20 passes: after k passes the bracket
\* is (0.01 / 2^k, 100 * 2^k), the loop goes on only while k < 20, the failure
\* is raised in pass 20, and the objective has been computed 2 + 2k times.
C10_AtMostTwentyExpansions ==
    /\ expansions <= 20
    /\ simCalls <= 42
    /\ (a # Unset) =>
          /\ simCalls = 2 + 2 * expansions
          /\ DecMul(a, Pow2(expansions)) = InitialLow
          /\ b = DecMul(InitialHigh, Pow2(expansions))
    /\ (pc = "bracket_test") =>
          /\ expansions < 20
          /\ SameSign(fa, fb) => ~OutOfRange(a, b)
    /\ (pc = "raised") => expansions = 20
    /\ (A_required # Unset) => expansions < 20

C10_Witness == pc = "raised" /\ expansions = 20 /\ simCalls = 42

\* C9 as claimed (checked under ProbeSpec), and only for valid parameters: for
\* fixed parameters the final balance is non-decreasing in the quantity.
C9_NonDecreasing == (pc = "probed" /\ ValidParameters) => DecLE(fa, fb)

\* C9 as amended: it is non-decreasing in the quantity when the asset value is
\* not negative and the appreciation rate is not below -100 %.
C9_NonDecreasingForSensibleRates ==
    (pc = "probed" /\ asset_value >= 0 /\ appreciation >= -100) => DecLE(fa, fb)

C9_Witness ==
    /\ pc = "probed" /\ years = MaxYears /\ appreciation = 200 /\ asset_value > 0
    /\ DecLT(a, b) /\ DecLT(fa, fb)

====
